---- MODULE Spec2Model ----
(***************************************************************************)
(* Model of Court_app/main.py: a Flask application with three POST         *)
(* endpoints (search_case, download_cause_list, check_case_in_cause_list)  *)
(* over one SQLite database (queries, case_details, cause_lists) and the   *)
(* directory static/pdfs.  Flask's development server (app.run) serves     *)
(* each request on its own thread, so the handlers are modelled as threads *)
(* whose database and file steps interleave.  Each handler opens its own   *)
(* sqlite3 connection; sqlite3 starts a transaction at the first INSERT,   *)
(* which takes the database write lock until commit.  A writer that finds  *)
(* the lock taken waits in sqlite3's busy handler; the wait is modelled as *)
(* a disabled step (the busy timeout, 5 s by default, is not modelled: the *)
(* holder runs no blocking call between its first INSERT and its commit).  *)
(*                                                                         *)
(* Text that the code parses or formats (year, date, file name) is a       *)
(* sequence of one-character strings; text that the code only compares or  *)
(* stores is a TLA+ string.  A form field is None when the key is absent   *)
(* and Some(v) when it was submitted with value v.                         *)
(***************************************************************************)
EXTENDS Integers, Sequences, FiniteSets, TLC

\* ------------------------------------------------------------------ bounds
NumThreads == 2
MaxRequests == 2
MaxTicks == 1

\* ------------------------------------------------------- optional values
None == <<>>
Some(v) == <<v>>
Get(field, default) == IF field = None THEN default ELSE field[1]

\* ---------------------------------------------------------- characters
DigitChars == <<"0", "1", "2", "3", "4", "5", "6", "7", "8", "9">>
IsDigit(c) == \E i \in 1..10 : DigitChars[i] = c
DigitVal(c) == (CHOOSE i \in 1..10 : DigitChars[i] = c) - 1
AllDigits(s) == \A i \in 1..Len(s) : IsDigit(s[i])

RECURSIVE NumVal(_)
NumVal(s) == IF s = <<>> THEN 0
             ELSE 10 * NumVal(SubSeq(s, 1, Len(s) - 1)) + DigitVal(s[Len(s)])

RECURSIVE LStrip(_)
LStrip(s) == IF s # <<>> /\ s[1] = " " THEN LStrip(Tail(s)) ELSE s

RECURSIVE RStrip(_)
RStrip(s) == IF s # <<>> /\ s[Len(s)] = " " THEN RStrip(SubSeq(s, 1, Len(s) - 1)) ELSE s

RECURSIVE DropZeros(_)
DropZeros(s) == IF Len(s) > 1 /\ s[1] = "0" THEN DropZeros(Tail(s)) ELSE s

\* a <= b for digit strings without leading zeros
RECURSIVE DigitsLeq(_, _)
DigitsLeq(a, b) ==
  IF Len(a) # Len(b) THEN Len(a) < Len(b)
  ELSE IF a = <<>> THEN TRUE
  ELSE IF a[1] # b[1] THEN DigitVal(a[1]) < DigitVal(b[1])
  ELSE DigitsLeq(Tail(a), Tail(b))

\* ------------------------------------------------------------- int(year)
\* Python's int(str): surrounding whitespace is stripped, one sign is
\* allowed, the rest is decimal digits with single underscores between
\* digits.  Anything else raises ValueError (ok = FALSE).
PyInt(s) ==
  LET b    == RStrip(LStrip(s))
      sgn  == b # <<>> /\ b[1] \in {"+", "-"}
      body == IF sgn THEN Tail(b) ELSE b
      good == /\ body # <<>>
              /\ \A i \in 1..Len(body) : IsDigit(body[i]) \/ body[i] = "_"
              /\ IsDigit(body[1]) /\ IsDigit(body[Len(body)])
              /\ \A i \in 1..(Len(body) - 1) : ~(body[i] = "_" /\ body[i + 1] = "_")
  IN [ok |-> good,
      neg |-> sgn /\ b[1] = "-",
      digits |-> IF good THEN DropZeros(SelectSeq(body, IsDigit)) ELSE <<>>]

\* sqlite3 binds a Python int as a 64-bit integer and raises OverflowError
\* outside [-2^63, 2^63-1].
Int64Max == <<"9","2","2","3","3","7","2","0","3","6","8","5","4","7","7","5","8","0","7">>
Int64MinMag == <<"9","2","2","3","3","7","2","0","3","6","8","5","4","7","7","5","8","0","8">>
FitsInt64(n) == IF n.neg THEN DigitsLeq(n.digits, Int64MinMag)
                ELSE DigitsLeq(n.digits, Int64Max)
IntValue(n) == IF n.neg THEN 0 - NumVal(n.digits) ELSE NumVal(n.digits)

\* ----------------------------------------------------------------- dates
IsLeap(y) == (y % 4 = 0 /\ y % 100 # 0) \/ y % 400 = 0
DaysInMonth(y, m) ==
  IF m = 2 THEN (IF IsLeap(y) THEN 29 ELSE 28)
  ELSE IF m \in {4, 6, 9, 11} THEN 30 ELSE 31

NextDay(dt) ==
  IF dt.d < DaysInMonth(dt.y, dt.m) THEN [y |-> dt.y, m |-> dt.m, d |-> dt.d + 1]
  ELSE IF dt.m < 12 THEN [y |-> dt.y, m |-> dt.m + 1, d |-> 1]
  ELSE [y |-> dt.y + 1, m |-> 1, d |-> 1]

\* date + timedelta(days=n)
RECURSIVE AddDays(_, _)
AddDays(dt, n) == IF n = 0 THEN dt ELSE AddDays(NextDay(dt), n - 1)

Pad2(n) == <<DigitChars[(n \div 10) + 1], DigitChars[(n % 10) + 1]>>
Pad4(n) == Pad2(n \div 100) \o Pad2(n % 100)

\* strftime("%Y-%m-%d") and strftime("%Y%m%d")
FormatDashed(dt) == Pad4(dt.y) \o <<"-">> \o Pad2(dt.m) \o <<"-">> \o Pad2(dt.d)
FormatCompact(dt) == Pad4(dt.y) \o Pad2(dt.m) \o Pad2(dt.d)

\* datetime.strptime(s, '%Y-%m-%d').date(): %Y is exactly four digits, %m is
\* 1[0-2]|0[1-9]|[1-9], %d is 3[0-1]|[1-2]\d|0[1-9]|[1-9]| [1-9]; the whole
\* string must be consumed and the result must be a date of the calendar.
StrpDate(s) ==
  LET dashes == {i \in 1..Len(s) : s[i] = "-"}
      i1 == CHOOSE i \in dashes : \A j \in dashes : i <= j
      i2 == CHOOSE i \in dashes : \A j \in dashes : j <= i
      yS == SubSeq(s, 1, i1 - 1)
      mS == SubSeq(s, i1 + 1, i2 - 1)
      dS == SubSeq(s, i2 + 1, Len(s))
      dD == IF dS # <<>> /\ dS[1] = " " THEN Tail(dS) ELSE dS
      shape == /\ Len(yS) = 4 /\ AllDigits(yS)
               /\ Len(mS) \in {1, 2} /\ AllDigits(mS) /\ NumVal(mS) \in 1..12
               /\ Len(dS) \in {1, 2} /\ dD # <<>> /\ AllDigits(dD)
               /\ NumVal(dD) \in (IF Len(dD) < Len(dS) THEN 1..9 ELSE 1..31)
      val == [y |-> NumVal(yS), m |-> NumVal(mS), d |-> NumVal(dD)]
  IN IF Cardinality(dashes) # 2 \/ ~shape THEN [ok |-> FALSE, date |-> [y |-> 0, m |-> 0, d |-> 0]]
     ELSE IF val.y < 1 \/ val.d > DaysInMonth(val.y, val.m)
          THEN [ok |-> FALSE, date |-> [y |-> 0, m |-> 0, d |-> 0]]
     ELSE [ok |-> TRUE, date |-> val]


\* ------------------------------------------------------- request inputs
Chars(y4, m2, d2) == y4 \o <<"-">> \o m2 \o <<"-">> \o d2
Nines == [i \in 1..20 |-> "9"]

CaseNumbers == {None, Some(""), Some("CR123/2023"), Some("cr123/2023"),
                Some(" CR123/2023"), Some("FA789/2023")}
Years == {None, Some(<<"a", "b", "c">>), Some(<<"2", "0", "2", "3">>),
          Some(<<" ", "2", "0", "_", "2", "4">>), Some(Nines)}
Dates == {None, Some(<<>>),
          Some(Chars(<<"2","0","2","4">>, <<"0","3">>, <<"0","1">>)),
          Some(Chars(<<"2","0","2","4">>, <<"3">>, <<"1">>)),
          Some(Chars(<<"2","0","2","3">>, <<"0","2">>, <<"2","9">>)),
          Some(Chars(<<"0","1">>, <<"0","3">>, <<"2","0","2","4">>))}

Form(ep, ct, cn, yr, court, dt) ==
  [endpoint |-> ep, case_type |-> ct, case_number |-> cn, year |-> yr,
   court_type |-> court, date |-> dt]

\* The forms submitted: one complete form for each endpoint, and the forms
\* that differ from it in one field.
GoodYear == Some(<<"2", "0", "2", "3">>)
SearchForms ==
  {Form("search_case", ct, Some("CR123/2023"), GoodYear, None, None) :
     ct \in {None, Some(""), Some("Criminal")}}
  \cup {Form("search_case", Some("Criminal"), Some(""), GoodYear, None, None)}
  \cup {Form("search_case", Some("Criminal"), Some("CR123/2023"), yr, None, None) : yr \in Years}
  \cup {Form("search_case", Some("Criminal"), Some("CR123/2023"), GoodYear, c, None) :
          c \in {Some("high_court"), Some("High_Court")}}

GoodDate == Some(Chars(<<"2","0","2","4">>, <<"0","3">>, <<"0","1">>))
DownloadForms ==
  {Form("download_cause_list", None, None, None, None, dt) : dt \in Dates}
  \cup {Form("download_cause_list", None, None, None, Some("high_court"), GoodDate)}

CheckForms ==
  {Form("check_case_in_cause_list", None, cn, None, None, None) : cn \in CaseNumbers}
  \cup {Form("check_case_in_cause_list", None, Some("CR123/2023"), None, None, dt) :
          dt \in {Some(Chars(<<"2","0","2","4">>, <<"3">>, <<"1">>)),
                  Some(Chars(<<"0","1">>, <<"0","3">>, <<"2","0","2","4">>))}}
  \cup {Form("check_case_in_cause_list", None, Some("FA789/2023"), None,
             Some("high_court"), GoodDate)}

\* mutant: a test for None only, which lets an empty field through
Truthy_not_none(field) == field # None

\* Python truthiness of request.form.get(key): None and "" are falsy
Truthy(field) == field # None /\ field[1] # ""
TruthyChars(field) == field # None /\ field[1] # <<>>

\* ------------------------------------------------------------ CourtScraper
\* What the portal request does is outside the program: it either answers
\* (the handlers use the mock data) or raises (the except branch).
PortalOutcomes == {"ok", "error"}

ScrapeError == [error |-> "RequestException"]

scrape_high_court(case_type, case_number, year, day, outcome) ==
  IF outcome = "error" THEN [data |-> ScrapeError, raw |-> None]
  ELSE [data |-> [parties |-> "Petitioner: John Doe vs Respondent: State of Example",
                  filing_date |-> "2023-05-15",
                  next_hearing_date |-> FormatDashed(AddDays(day, 7)),
                  case_status |-> "Pending",
                  judgment_url |-> None],
        raw |-> Some("hcservices.ecourts.gov.in")]

scrape_district_court(case_type, case_number, year, day, outcome) ==
  IF outcome = "error" THEN [data |-> ScrapeError, raw |-> None]
  ELSE [data |-> [parties |-> "Applicant: Jane Smith vs Opponent: ABC Corporation",
                  filing_date |-> "2023-06-20",
                  next_hearing_date |-> FormatDashed(AddDays(day, 5)),
                  case_status |-> "Hearing",
                  judgment_url |-> None],
        raw |-> Some("services.ecourts.gov.in")]

\* court_type.replace('_', ' ').title() + " Court", for the court types submitted
CourtTitle(court_type) ==
  CASE court_type = "high_court" -> "High Court Court"
    [] court_type = "High_Court" -> "High Court Court"
    [] court_type = "district_court" -> "District Court Court"
    [] OTHER -> "Court"

MockCases ==
  << [case_number |-> "CR123/2023", case_type |-> "Criminal", parties |-> "State vs John Doe"],
     [case_number |-> "CV456/2023", case_type |-> "Civil", parties |-> "Smith vs Jones"],
     [case_number |-> "FA789/2023", case_type |-> "Family", parties |-> "Doe vs Doe"] >>

\* The PDF bytes: the court, date and case numbers that both renderers
\* (pdfkit, or reportlab when pdfkit raises) put on the page; stamp stands
\* for the creation time the renderer embeds in the document.
generate_cause_list_pdf(cause_list_data, stamp) ==
  [court |-> cause_list_data.court, date |-> cause_list_data.date,
   cases |-> [i \in 1..Len(cause_list_data.cases) |-> cause_list_data.cases[i].case_number],
   stamp |-> stamp]

scraper_download_cause_list(court_type, target_date, outcome, stamp) ==
  IF outcome = "error" THEN [data |-> ScrapeError, pdf |-> None, raw |-> None]
  ELSE LET cause_list_data == [court |-> CourtTitle(court_type),
                               date |-> FormatDashed(target_date),
                               cases |-> MockCases]
       IN [data |-> cause_list_data,
           pdf |-> Some(generate_cause_list_pdf(cause_list_data, stamp)),
           raw |-> Some(IF court_type = "high_court" THEN "hcservices.ecourts.gov.in"
                        ELSE "services.ecourts.gov.in")]

\* mutant: a test for a key the scraper never sets
HasError_wrong_key(data) == "errors" \in DOMAIN data

\* 'error' in result
HasError(data) == "error" \in DOMAIN data

\* ------------------------------------------------------------------ state
VARIABLES
  queries,       \* committed rows of table queries, in insertion order
  case_details,  \* committed rows of table case_details
  cause_lists,   \* committed rows of table cause_lists
  files,         \* the files under static/pdfs: path -> content
  dbLock,        \* the thread whose connection holds the write lock, 0 if none
  today,         \* date.today()
  nreq,          \* number of requests received so far
  pc,            \* per thread: position in its handler
  req,           \* per thread: request.form of the request being (or last) served
  serial,        \* per thread: arrival number of that request
  scraped,       \* per thread: the scraper operation the request called, and
                 \* whether its result carried the key 'error'
  loc,           \* per thread: the handler's local variables
  resp           \* per thread: the response returned, NoResp while none

vars == <<queries, case_details, cause_lists, files, dbLock, today, nreq,
          pc, req, serial, scraped, loc, resp>>
store == <<queries, case_details, cause_lists, files>>

Threads == 1..NumThreads
StartDay == [y |-> 2024, m |-> 2, d |-> 28]
LastDay == AddDays(StartDay, MaxTicks)

NoForm == Form("none", None, None, None, None, None)
NoResp == [status |-> 0, body |-> [none |-> TRUE]]
NoLoc == [none |-> TRUE]
NotCalled == [op |-> "none", error |-> FALSE]
Called(op, data) == [op |-> op, error |-> "error" \in DOMAIN data]

Init ==
  /\ queries = <<>>
  /\ case_details = <<>>
  /\ cause_lists = <<>>
  /\ files = <<>>
  /\ dbLock = 0
  /\ today = StartDay
  /\ nreq = 0
  /\ pc = [t \in Threads |-> "idle"]
  /\ req = [t \in Threads |-> NoForm]
  /\ serial = [t \in Threads |-> 0]
  /\ scraped = [t \in Threads |-> NotCalled]
  /\ loc = [t \in Threads |-> NoLoc]
  /\ resp = [t \in Threads |-> NoResp]

\* jsonify(...), status
Json(status, body) == [status |-> status, body |-> body]

\* The server starts a thread for each request it receives.  Threads are
\* interchangeable, so a request is given to the first one not serving.
Busy(t) == pc[t] \notin {"idle", "done"}
CanAccept(t) == ~Busy(t) /\ (\A u \in 1..(t - 1) : Busy(u)) /\ nreq < MaxRequests

Accept(t, form) ==
  /\ nreq' = nreq + 1
  /\ req' = [req EXCEPT ![t] = form]
  /\ serial' = [serial EXCEPT ![t] = nreq + 1]

Return(t, response) ==
  /\ pc' = [pc EXCEPT ![t] = "done"]
  /\ resp' = [resp EXCEPT ![t] = response]

Goto(t, label, locals) ==
  /\ pc' = [pc EXCEPT ![t] = label]
  /\ loc' = [loc EXCEPT ![t] = locals]
  /\ resp' = [resp EXCEPT ![t] = NoResp]

\* Rows hold the columns the handlers set and the id; the timestamp and
\* created_at columns, which SQLite fills with CURRENT_TIMESTAMP and no
\* statement of the program reads or sets, are left out.
\* AUTOINCREMENT: one more than the largest id the table ever held (no row
\* is ever deleted)
NextId(table) == Len(table) + 1

\* mutant: connections that do not exclude each other's write transactions
CanWrite_unlocked(t) == dbLock \in {0} \cup Threads

\* sqlite3: the first INSERT of a connection needs the write lock
CanWrite(t) == dbLock \in {0, t}


\* ------------------------------------------------------------ search_case
\* mutant: a dispatch that ignores letter case
IsHighCourt_anycase(court_type) == court_type \in {"high_court", "High_Court"}

\* Line 223: the dispatch on court_type
IsHighCourt(court_type) == court_type = "high_court"

\* Lines 209-229: read the form, validate, call the scraper.  Nothing here
\* touches the database, so it is one step.
search_case(t) ==
  /\ CanAccept(t)
  /\ \E form \in SearchForms, outcome \in PortalOutcomes :
       LET case_type   == form.case_type
           case_number == form.case_number
           court_type  == Get(form.court_type, "district_court")
           year        == PyInt(Get(form.year, <<>>))
           high        == IsHighCourt(court_type)
           result      == IF high
                          THEN scrape_high_court(case_type[1], case_number[1], year, today, outcome)
                          ELSE scrape_district_court(case_type[1], case_number[1], year, today, outcome)
       IN /\ Accept(t, form)
          /\ IF ~(Truthy(case_type) /\ Truthy(case_number) /\ TruthyChars(form.year))
             THEN /\ Return(t, Json(400, [error |-> "All fields are required"]))
                  /\ scraped' = [scraped EXCEPT ![t] = NotCalled]
                  /\ loc' = [loc EXCEPT ![t] = NoLoc]
             ELSE IF ~year.ok
             THEN /\ Return(t, Json(400, [error |-> "Year must be a number"]))
                  /\ scraped' = [scraped EXCEPT ![t] = NotCalled]
                  /\ loc' = [loc EXCEPT ![t] = NoLoc]
             ELSE /\ scraped' = [scraped EXCEPT ![t] =
                                   Called(IF high THEN "scrape_high_court"
                                          ELSE "scrape_district_court", result.data)]
                  /\ IF HasError(result.data)
                     THEN /\ Return(t, Json(500, [error |-> result.data.error]))
                          /\ loc' = [loc EXCEPT ![t] = NoLoc]
                     ELSE Goto(t, "insert_query",
                               [case_type |-> case_type[1], case_number |-> case_number[1],
                                year |-> year, court_type |-> court_type,
                                case_data |-> result.data, raw_response |-> result.raw])
  /\ UNCHANGED <<store, dbLock, today>>

\* mutant: the INSERT INTO queries runs on an autocommit connection, so a
\* request leaves a queries row at once and a second one at its commit
insert_query_autocommit(t) ==
  /\ pc[t] = "insert_query"
  /\ FitsInt64(loc[t].year)
  /\ CanWrite(t)
  /\ dbLock' = t
  /\ LET row == [id |-> NextId(queries),
                 case_type |-> loc[t].case_type,
                 case_number |-> loc[t].case_number,
                 year |-> IntValue(loc[t].year),
                 court_type |-> loc[t].court_type,
                 raw_response |-> loc[t].raw_response]
     IN /\ queries' = Append(queries, row)
        /\ Goto(t, "read_lastrowid",
                [case_data |-> loc[t].case_data,
                 query_row |-> [row EXCEPT !.id = row.id + 1], lastrowid |-> row.id + 1])
  /\ UNCHANGED <<case_details, cause_lists, files, today, nreq, req, serial, scraped>>

\* Lines 232-238: connect and INSERT INTO queries.  Binding a year outside
\* 64 bits raises OverflowError before the statement runs; nothing catches
\* it, Flask answers 500 and the connection is dropped.
insert_query(t) ==
  /\ pc[t] = "insert_query"
  /\ IF ~FitsInt64(loc[t].year)
     THEN /\ Return(t, Json(500, [error |-> "OverflowError"]))
          /\ loc' = [loc EXCEPT ![t] = NoLoc]
          /\ UNCHANGED dbLock
     ELSE /\ CanWrite(t)
          /\ dbLock' = t
          /\ LET row == [id |-> NextId(queries),
                         case_type |-> loc[t].case_type,
                         case_number |-> loc[t].case_number,
                         year |-> IntValue(loc[t].year),
                         court_type |-> loc[t].court_type,
                         raw_response |-> loc[t].raw_response]
             IN Goto(t, "read_lastrowid",
                     [case_data |-> loc[t].case_data, query_row |-> row, lastrowid |-> row.id])
  /\ UNCHANGED <<store, today, nreq, req, serial, scraped>>

\* Line 240: query_id = c.lastrowid, the id this cursor's INSERT produced
read_lastrowid(t) ==
  /\ pc[t] = "read_lastrowid"
  /\ Goto(t, "insert_details",
          [case_data |-> loc[t].case_data, query_row |-> loc[t].query_row,
           query_id |-> loc[t].lastrowid])
  /\ UNCHANGED <<store, dbLock, today, nreq, req, serial, scraped>>

\* Lines 242-246: INSERT INTO case_details in the same transaction
insert_details(t) ==
  /\ pc[t] = "insert_details"
  /\ LET d == loc[t].case_data
         row == [id |-> NextId(case_details),
                 query_id |-> loc[t].query_id,
                 parties |-> d.parties,
                 filing_date |-> d.filing_date,
                 next_hearing_date |-> d.next_hearing_date,
                 case_status |-> d.case_status,
                 judgment_url |-> IF "judgment_url" \in DOMAIN d THEN d.judgment_url ELSE None]
     IN Goto(t, "commit_search",
             [case_data |-> d, query_row |-> loc[t].query_row,
              query_id |-> loc[t].query_id, details_row |-> row])
  /\ UNCHANGED <<store, dbLock, today, nreq, req, serial, scraped>>

\* mutant: the commit comes before the INSERT INTO case_details, whose row
\* is lost when the connection is closed
commit_search_early(t) ==
  /\ pc[t] = "commit_search"
  /\ queries' = Append(queries, loc[t].query_row)
  /\ dbLock' = 0
  /\ Return(t, Json(200, loc[t].case_data))
  /\ loc' = [loc EXCEPT ![t] = [query_id |-> loc[t].query_id]]
  /\ UNCHANGED <<case_details, cause_lists, files, today, nreq, req, serial, scraped>>

\* Lines 248-251: commit makes both rows visible and releases the lock;
\* the handler then returns the case data as JSON.
commit_search(t) ==
  /\ pc[t] = "commit_search"
  /\ queries' = Append(queries, loc[t].query_row)
  /\ case_details' = Append(case_details, loc[t].details_row)
  /\ dbLock' = 0
  /\ Return(t, Json(200, loc[t].case_data))
  /\ loc' = [loc EXCEPT ![t] = [query_id |-> loc[t].query_id]]
  /\ UNCHANGED <<cause_lists, files, today, nreq, req, serial, scraped>>


\* ---------------------------------------------------- download_cause_list
\* Lines 258-264 and 308-314: the date field, or tomorrow when it is falsy
target_date_of(form, day) ==
  IF TruthyChars(form.date) THEN StrpDate(form.date[1])
  ELSE [ok |-> TRUE, date |-> AddDays(day, 1)]

\* Lines 275-276
pdf_filename_of(court_type, target_date) ==
  <<"cause_list_", court_type, "_">> \o FormatCompact(target_date) \o <<".pdf">>
pdf_path_of(court_type, target_date) ==
  <<"static", "/", "pdfs", "/">> \o pdf_filename_of(court_type, target_date)

\* mutant: a scraper that saves the PDF it rendered under static/pdfs
scraper_files_saving(fs, court_type, target_date, result) ==
  IF HasError(result.data) THEN fs
  ELSE (pdf_path_of(court_type, target_date) :> result.pdf[1]) @@ fs

\* Lines 139-142: the scraper renders the PDF in memory and returns it; it
\* leaves the files under static/pdfs as they are.
scraper_files(fs, court_type, target_date, result) == fs

\* Lines 255-269: read the form, validate, call the scraper (which also
\* renders the PDF in memory).
download_cause_list(t) ==
  /\ CanAccept(t)
  /\ \E form \in DownloadForms, outcome \in PortalOutcomes :
       LET court_type == Get(form.court_type, "district_court")
           target     == target_date_of(form, today)
           result     == scraper_download_cause_list(court_type, target.date, outcome, nreq + 1)
       IN /\ Accept(t, form)
          /\ IF ~target.ok
             THEN /\ Return(t, Json(400, [error |-> "Invalid date format. Use YYYY-MM-DD"]))
                  /\ scraped' = [scraped EXCEPT ![t] = NotCalled]
                  /\ loc' = [loc EXCEPT ![t] = NoLoc]
             ELSE /\ scraped' = [scraped EXCEPT ![t] = Called("download_cause_list", result.data)]
                  /\ IF HasError(result.data)
                     THEN /\ Return(t, Json(500, [error |-> result.data.error]))
                          /\ loc' = [loc EXCEPT ![t] = NoLoc]
                     ELSE Goto(t, "write_pdf",
                               [court_type |-> court_type, target_date |-> target.date,
                                pdf_content |-> result.pdf, raw_response |-> result.raw])
          /\ files' = IF target.ok
                      THEN scraper_files(files, court_type, target.date, result)
                      ELSE files
  /\ UNCHANGED <<queries, case_details, cause_lists, dbLock, today>>

\* Lines 272-282: open(pdf_path, 'wb') creates or truncates the file and
\* writes this request's PDF.
write_file(fs, path, content) == (path :> content) @@ fs

write_pdf(t) ==
  /\ pc[t] = "write_pdf"
  /\ LET path == pdf_path_of(loc[t].court_type, loc[t].target_date)
     IN /\ files' = write_file(files, path, loc[t].pdf_content[1])
        /\ Goto(t, "insert_cause_list",
                [court_type |-> loc[t].court_type, target_date |-> loc[t].target_date,
                 pdf_content |-> loc[t].pdf_content, raw_response |-> loc[t].raw_response,
                 pdf_path |-> path])
  /\ UNCHANGED <<queries, case_details, cause_lists, dbLock, today, nreq, req, serial, scraped>>

\* Lines 284-287: INSERT INTO cause_lists
insert_cause_list(t) ==
  /\ pc[t] = "insert_cause_list"
  /\ CanWrite(t)
  /\ dbLock' = t
  /\ LET row == [id |-> NextId(cause_lists),
                 court_type |-> loc[t].court_type,
                 list_date |-> FormatDashed(loc[t].target_date),
                 pdf_path |-> loc[t].pdf_path,
                 raw_data |-> loc[t].raw_response]
     IN Goto(t, "commit_cause_list",
             [court_type |-> loc[t].court_type, target_date |-> loc[t].target_date,
              pdf_content |-> loc[t].pdf_content, list_row |-> row])
  /\ UNCHANGED <<store, today, nreq, req, serial, scraped>>

\* mutant: INSERT OR REPLACE keyed on the path, which deletes the rows of
\* earlier requests for the same court and date before it adds the new one
commit_cause_list_replace(t) ==
  /\ pc[t] = "commit_cause_list"
  /\ cause_lists' =
       Append(SelectSeq(cause_lists,
                        LAMBDA r : r.pdf_path # loc[t].list_row.pdf_path),
              loc[t].list_row)
  /\ dbLock' = 0
  /\ Return(t, [status |-> 200,
                body |-> [file |-> loc[t].pdf_content[1],
                          download_name |-> pdf_filename_of(loc[t].court_type, loc[t].target_date),
                          mimetype |-> "application/pdf"]])
  /\ loc' = [loc EXCEPT ![t] = [list_id |-> loc[t].list_row.id]]
  /\ UNCHANGED <<queries, case_details, files, today, nreq, req, serial, scraped>>

\* Lines 289-297: commit, then send the PDF held in memory
commit_cause_list(t) ==
  /\ pc[t] = "commit_cause_list"
  /\ cause_lists' = Append(cause_lists, loc[t].list_row)
  /\ dbLock' = 0
  /\ Return(t, [status |-> 200,
                body |-> [file |-> loc[t].pdf_content[1],
                          download_name |-> pdf_filename_of(loc[t].court_type, loc[t].target_date),
                          mimetype |-> "application/pdf"]])
  /\ loc' = [loc EXCEPT ![t] = [list_id |-> loc[t].list_row.id]]
  /\ UNCHANGED <<queries, case_details, files, today, nreq, req, serial, scraped>>

\* ----------------------------------------------- check_case_in_cause_list
\* Line 322: cause_list_data.get('cases', [])
cases_of(cause_list_data) ==
  IF "cases" \in DOMAIN cause_list_data THEN cause_list_data.cases ELSE <<>>

\* mutant: a search that trims and upper-cases the submitted number first
Normalised(case_number) ==
  IF case_number \in {"cr123/2023", " CR123/2023"} THEN "CR123/2023" ELSE case_number
found_in_normalised(cases, case_number) ==
  \E i \in 1..Len(cases) : cases[i].case_number = Normalised(case_number)

\* Line 322: any(case['case_number'] == case_number for case in cases)
found_in(cases, case_number) ==
  \E i \in 1..Len(cases) : cases[i].case_number = case_number

\* Lines 301-329: the whole handler; it has no database or file step
check_case_in_cause_list(t) ==
  /\ CanAccept(t)
  /\ \E form \in CheckForms, outcome \in PortalOutcomes :
       LET case_number == form.case_number
           court_type  == Get(form.court_type, "district_court")
           target      == target_date_of(form, today)
           result      == scraper_download_cause_list(court_type, target.date, outcome, nreq + 1)
       IN /\ Accept(t, form)
          /\ loc' = [loc EXCEPT ![t] = NoLoc]
          /\ IF ~Truthy(case_number)
             THEN /\ Return(t, Json(400, [error |-> "Case number is required"]))
                  /\ scraped' = [scraped EXCEPT ![t] = NotCalled]
             ELSE IF ~target.ok
             THEN /\ Return(t, Json(400, [error |-> "Invalid date format. Use YYYY-MM-DD"]))
                  /\ scraped' = [scraped EXCEPT ![t] = NotCalled]
             ELSE /\ scraped' = [scraped EXCEPT ![t] = Called("download_cause_list", result.data)]
                  /\ IF HasError(result.data)
                     THEN Return(t, Json(500, [error |-> result.data.error]))
                     ELSE Return(t, Json(200, [found |-> found_in(cases_of(result.data), case_number[1]),
                                               date |-> FormatDashed(target.date),
                                               court |-> court_type,
                                               case_number |-> case_number[1]]))
          /\ files' = IF Truthy(case_number) /\ target.ok
                      THEN scraper_files(files, court_type, target.date, result)
                      ELSE files
  /\ UNCHANGED <<queries, case_details, cause_lists, dbLock, today>>

\* ------------------------------------------------------------- the clock
Tick ==
  /\ today # LastDay
  /\ today' = NextDay(today)
  /\ UNCHANGED <<store, dbLock, nreq, pc, req, serial, scraped, loc, resp>>

Next ==
  \/ \E t \in Threads : search_case(t)
  \/ \E t \in Threads : insert_query(t)
  \/ \E t \in Threads : read_lastrowid(t)
  \/ \E t \in Threads : insert_details(t)
  \/ \E t \in Threads : commit_search(t)
  \/ \E t \in Threads : download_cause_list(t)
  \/ \E t \in Threads : write_pdf(t)
  \/ \E t \in Threads : insert_cause_list(t)
  \/ \E t \in Threads : commit_cause_list(t)
  \/ \E t \in Threads : check_case_in_cause_list(t)
  \/ Tick

Spec == Init /\ [][Next]_vars


\* ================================================================ claims
\* thread t holds the response, with the given status, to a request to ep
Done(t, ep, status) ==
  pc[t] = "done" /\ req[t].endpoint = ep /\ resp[t].status = status

\* the step in which thread t receives a request
Receives(t) == serial'[t] # serial[t]

\* the step in which thread t returns its response
Completes(t) == pc'[t] = "done" /\ (pc[t] # "done" \/ Receives(t))

\* C1: every committed case_details row refers to an existing queries row,
\* and every committed queries row is referred to by exactly one
\* case_details row.
C1_OneToOne ==
  /\ \A i \in 1..Len(case_details) :
       \E j \in 1..Len(queries) : queries[j].id = case_details[i].query_id
  /\ \A j \in 1..Len(queries) :
       Cardinality({i \in 1..Len(case_details) :
                      case_details[i].query_id = queries[j].id}) = 1

C1_Witness ==
  /\ Len(queries) = 2 /\ Len(case_details) = 2
  /\ case_details[1].query_id # case_details[2].query_id

\* C2 as stated: each search_case request adds exactly one row to queries,
\* whatever its outcome.
C2_EveryRequestAddsRow ==
  [][\A t \in Threads :
       (Completes(t) /\ req'[t].endpoint = "search_case")
         => Len(queries') = Len(queries) + 1]_vars

\* C2 amended: a search_case request answered with 200 adds exactly one row
\* to queries, at its commit, and that row is the request's own; a request
\* answered with 400 or 500 adds none; and no other step adds a queries row.
C2_SuccessfulRequestAddsRow ==
  [][/\ \A t \in Threads :
          (Completes(t) /\ req'[t].endpoint = "search_case")
            => IF resp'[t].status = 200
               THEN /\ Len(queries') = Len(queries) + 1
                    /\ queries'[Len(queries')].id = loc'[t].query_id
                    /\ SubSeq(queries', 1, Len(queries)) = queries
               ELSE queries' = queries
     /\ queries' # queries
          => \E t \in Threads : /\ Completes(t)
                                /\ req'[t].endpoint = "search_case"
                                /\ resp'[t].status = 200]_vars

C2_Witness ==
  \E t \in Threads :
    /\ Done(t, "search_case", 200)
    /\ Len(queries) = 1
    /\ nreq = 2

\* C3: the three tables are append-only: every step keeps every existing
\* row, with all its field values, at its position, so no table shrinks.
C3_AppendOnly ==
  [][/\ Len(queries') >= Len(queries)
     /\ SubSeq(queries', 1, Len(queries)) = queries
     /\ Len(case_details') >= Len(case_details)
     /\ SubSeq(case_details', 1, Len(case_details)) = case_details
     /\ Len(cause_lists') >= Len(cause_lists)
     /\ SubSeq(cause_lists', 1, Len(cause_lists)) = cause_lists]_vars

C3_Witness ==
  /\ Len(cause_lists) = 2
  /\ cause_lists[1].pdf_path = cause_lists[2].pdf_path

\* C4: two search_case requests that overlap both commit their two rows,
\* each case_details row carrying the id of the queries row of the same
\* request: a request answered with 200 owns exactly one queries row, which
\* holds its form values, and exactly one case_details row, which holds the
\* data it returned; and a request waiting for the write lock waits for a
\* holder that is about to commit.
OwnQueryRows(t) == {j \in 1..Len(queries) : queries[j].id = loc[t].query_id}
OwnDetailRows(t) ==
  {i \in 1..Len(case_details) : case_details[i].query_id = loc[t].query_id}

C4_NoCrossLinking ==
  /\ \A t \in Threads :
       Done(t, "search_case", 200) =>
         /\ Cardinality(OwnQueryRows(t)) = 1
         /\ Cardinality(OwnDetailRows(t)) = 1
         /\ \A j \in OwnQueryRows(t) :
              /\ queries[j].case_type = req[t].case_type[1]
              /\ queries[j].case_number = req[t].case_number[1]
              /\ queries[j].court_type = Get(req[t].court_type, "district_court")
         /\ \A i \in OwnDetailRows(t) :
              /\ case_details[i].parties = resp[t].body.parties
              /\ case_details[i].next_hearing_date = resp[t].body.next_hearing_date
  /\ \A t \in Threads :
       (pc[t] \in {"insert_query", "insert_cause_list"} /\ dbLock \notin {0, t})
         => pc[dbLock] \in {"read_lastrowid", "insert_details", "commit_search",
                            "commit_cause_list"}

C4_Witness ==
  /\ Done(1, "search_case", 200)
  /\ Done(2, "search_case", 200)
  /\ req[1].court_type # req[2].court_type
  /\ loc[1].query_id # loc[2].query_id


\* C5: a request that form validation rejects is answered with 400 in the
\* step that receives it, without a call to the scraper and with the three
\* tables, the PDF files and the write lock left as they were.  Rejected are:
\* search_case with case_type, case_number or year missing or empty or with
\* a year that int() does not accept; download_cause_list and
\* check_case_in_cause_list with a non-empty date that strptime('%Y-%m-%d')
\* does not accept; check_case_in_cause_list with case_number missing or empty.
MissingOrEmpty(field) == field = None \/ field[1] = ""
MissingOrEmptyChars(field) == field = None \/ Len(field[1]) = 0
BadDate(field) == ~MissingOrEmptyChars(field) /\ ~StrpDate(field[1]).ok

Rejected(form) ==
  CASE form.endpoint = "search_case" ->
         \/ MissingOrEmpty(form.case_type)
         \/ MissingOrEmpty(form.case_number)
         \/ MissingOrEmptyChars(form.year)
         \/ ~PyInt(form.year[1]).ok
    [] form.endpoint = "download_cause_list" -> BadDate(form.date)
    [] form.endpoint = "check_case_in_cause_list" ->
         MissingOrEmpty(form.case_number) \/ BadDate(form.date)
    [] OTHER -> FALSE

Days == {AddDays(StartDay, k) : k \in 0..MaxTicks}
HighData == {scrape_high_court("", "", 0, d, "ok").data : d \in Days}
DistrictData == {scrape_district_court("", "", 0, d, "ok").data : d \in Days}
DetailsOf(row) ==
  [parties |-> row.parties, filing_date |-> row.filing_date,
   next_hearing_date |-> row.next_hearing_date, case_status |-> row.case_status,
   judgment_url |-> row.judgment_url]
\* the integer a plain or underscored decimal text denotes
Denotes(text) == NumVal(SelectSeq(text, IsDigit))

C6_StoredPairMatchesDispatch ==
  \A t \in Threads :
    Done(t, "search_case", 200) =>
      /\ \E j \in 1..Len(queries) :
           /\ queries[j].id = loc[t].query_id
           /\ queries[j].case_type = req[t].case_type[1]
           /\ queries[j].case_number = req[t].case_number[1]
           /\ queries[j].year \in Int
           /\ queries[j].year = Denotes(req[t].year[1])
           /\ queries[j].court_type =
                (IF req[t].court_type = None THEN "district_court" ELSE req[t].court_type[1])
      /\ \E i \in 1..Len(case_details) :
           /\ case_details[i].query_id = loc[t].query_id
           /\ IF req[t].court_type = Some("high_court")
              THEN DetailsOf(case_details[i]) \in HighData
              ELSE DetailsOf(case_details[i]) \in DistrictData
           /\ resp[t].body = DetailsOf(case_details[i])

C6_Witness ==
  /\ Done(1, "search_case", 200) /\ req[1].court_type = Some("High_Court")
  /\ Done(2, "search_case", 200) /\ req[2].court_type = Some("high_court")
  /\ Len(queries) = 2

\* C7: a check_case_in_cause_list request answered with 200 reports found
\* exactly when the submitted case_number is, character for character, the
\* case_number of an entry of the cause list; the response carries the
\* submitted case_number, the court_type used and the date used: the
\* submitted date as YYYY-MM-DD, or the day after today when none was
\* submitted.
ListedNumbers == {"CR123/2023", "CV456/2023", "FA789/2023"}
\* the year, month and day a dashed date text names
Fields(text) ==
  LET dashes == {i \in 1..Len(text) : text[i] = "-"}
      i1 == CHOOSE i \in dashes : \A j \in dashes : i <= j
      i2 == CHOOSE i \in dashes : \A j \in dashes : j <= i
  IN <<NumVal(SubSeq(text, 1, i1 - 1)), NumVal(SubSeq(text, i1 + 1, i2 - 1)),
       NumVal(SubSeq(text, i2 + 1, Len(text)))>>

C7_FoundIffListed ==
  [][\A t \in Threads :
       (Receives(t) /\ req'[t].endpoint = "check_case_in_cause_list"
                    /\ resp'[t].status = 200)
         => LET form == req'[t]
                body == resp'[t].body
            IN /\ body.found = (form.case_number[1] \in ListedNumbers)
               /\ body.case_number = form.case_number[1]
               /\ body.court = (IF form.court_type = None THEN "district_court"
                                ELSE form.court_type[1])
               /\ Len(body.date) = 10
               /\ IF MissingOrEmptyChars(form.date)
                  THEN body.date = FormatDashed(NextDay(today))
                  ELSE Fields(body.date) = Fields(form.date[1])]_vars

C7_Witness ==
  \E t \in Threads :
    /\ Done(t, "check_case_in_cause_list", 200)
    /\ req[t].case_number = Some("FA789/2023")
    /\ req[t].court_type = Some("high_court")
    /\ resp[t].body.found
    /\ resp[t].body.court = "high_court"


\* C8: when the scraper's result carries the key 'error', the request is
\* answered with 500 in the step that receives it and persists nothing:
\* search_case adds no queries or case_details row, download_cause_list
\* writes no file and adds no cause_lists row.
C8_ScraperErrorPersistsNothing ==
  [][\A t \in Threads :
       (Receives(t) /\ scraped'[t].error)
         => /\ pc'[t] = "done"
            /\ resp'[t].status = 500
            /\ UNCHANGED <<store, dbLock>>]_vars

C8_Witness ==
  \E t \in Threads :
    /\ Done(t, "download_cause_list", 500)
    /\ scraped[t] = [op |-> "download_cause_list", error |-> TRUE]
    /\ Len(cause_lists) = 1
    /\ pdf_path_of("district_court", NextDay(today)) \notin DOMAIN files

\* the file name the row's own court_type and list_date give
Undashed(text) == SelectSeq(text, IsDigit)
PathOfRow(row) ==
  <<"static", "/", "pdfs", "/", "cause_list_", row.court_type, "_">>
    \o Undashed(row.list_date) \o <<".pdf">>

RowsWellFiled ==
  \A i \in 1..Len(cause_lists) :
    /\ cause_lists[i].pdf_path = PathOfRow(cause_lists[i])
    /\ Len(cause_lists[i].list_date) = 10
    /\ cause_lists[i].pdf_path \in DOMAIN files
    /\ files[cause_lists[i].pdf_path].court = CourtTitle(cause_lists[i].court_type)
    /\ files[cause_lists[i].pdf_path].date = cause_lists[i].list_date

\* thread t served the latest request: no request is being served, none
\* arrived after t's, and the row t inserted is the last with its path
LatestForItsPath(t) ==
  /\ \A u \in Threads : ~Busy(u) /\ serial[u] <= serial[t]
  /\ \E i \in 1..Len(cause_lists) :
       /\ cause_lists[i].id = loc[t].list_id
       /\ \A k \in 1..Len(cause_lists) :
            cause_lists[k].pdf_path = cause_lists[i].pdf_path => k <= i

\* C9: every cause_lists row has the path its court_type and
\* list_date give and a file exists there; and the file holds the content of
\* the latest request for that court and date: the one that arrived last and
\* whose row is the last with that path, once no request is being served.
C9_FileHoldsLatestRequest ==
  /\ RowsWellFiled
  /\ \A t \in Threads :
       (Done(t, "download_cause_list", 200) /\ LatestForItsPath(t))
         => \E i \in 1..Len(cause_lists) :
              /\ cause_lists[i].id = loc[t].list_id
              /\ files[cause_lists[i].pdf_path] = resp[t].body.file

\* C10: check_case_in_cause_list is read-only: whatever the input and the
\* outcome (400, 500 or 200), the step that serves it leaves the three
\* tables, the files under static/pdfs and the write lock as they were, and
\* it is the whole request.
C10_CheckIsReadOnly ==
  [][\A t \in Threads :
       (Receives(t) /\ req'[t].endpoint = "check_case_in_cause_list")
         => /\ pc'[t] = "done"
            /\ resp'[t].status \in {200, 400, 500}
            /\ UNCHANGED <<store, dbLock>>]_vars

C10_Witness ==
  \E t \in Threads :
    /\ Done(t, "check_case_in_cause_list", 200)
    /\ scraped[t] = [op |-> "download_cause_list", error |-> FALSE]
    /\ files = <<>>
    /\ req[t].date = Some(Chars(<<"2","0","2","4">>, <<"3">>, <<"1">>))

====
